---------------------------- MODULE Spec2Model ----------------------------
(***************************************************************************)
(* Model of the two pipelines of the Company-page repository:              *)
(*                                                                         *)
(*   - src/generate_textures_v4.js : the offline script that samples a     *)
(*     logo image into particle records and packs them into three raw      *)
(*     buffers written as PNG files (specification SpecOffline);           *)
(*   - src/assets/js/brain-logo.js : the runtime ParticleLogoA controller, *)
(*     its page-ready polling (SpecPoll, SpecPollFair) and its frame loop  *)
(*     and event listeners (SpecRuntime).                                  *)
(*                                                                         *)
(* JavaScript numbers are modelled exactly: the offline script's numbers    *)
(* and the controller's mouseX, mouseY and scrollProgress as rationals     *)
(* [n, d] kept in lowest terms, the particles' coordinates, radii, speeds  *)
(* and opacities as integers counting millionths.  At the boundary values  *)
(* the properties below are about (0.8+0.1, 0.5+0.25+0.15, 0.1+0.1+0.05,   *)
(* 75/3, 750/3) IEEE double arithmetic gives exactly the modelled result.  *)
(* Math.sin / Math.cos are tabulated on multiples of 30 degrees, in        *)
(* thousandths.  The group rotation, the per-particle self rotation and    *)
(* the particle scale are written by animate() but read by nothing the     *)
(* model observes, and are left out of the state.                          *)
(***************************************************************************)
EXTENDS Integers, Sequences, FiniteSets, TLC

VARIABLES
    \* ---- offline script (generate_textures_v4.js)
    pc,            \* position of the script
    data,          \* raw RGBA bytes of the resized image, index -> 0..255
    i,             \* loop variable of the sampling loop
    attempts,      \* number of loop bodies executed so far (history)
    lastSample,    \* the pixel read by the latest loop body and whether it was pushed (history)
    particles,     \* the accepted particle records
    shuffleI,      \* loop variable of the shuffle loop
    colorData, scaleData, posData,   \* the three packed buffers
    filesWritten,  \* names of the PNG files written so far
    failure,       \* what made the promise reject, "none" if nothing
    logged,        \* what console.error was given
    exitCode,      \* exit status of the process, -1 while it runs
    \* ---- runtime (brain-logo.js)
    readyState,    \* document.readyState
    scriptRun,     \* the top-level code of the file has run
    listening,     \* DOMContentLoaded listener registered and not yet fired
    containerExists, \* document.getElementById('brain-logo-container') is non-null
    threeDefined,  \* typeof THREE !== 'undefined'
    timers,        \* pending setTimeout(initLogoA, d) timers: remaining delays
    polls,         \* number of initLogoA invocations, saturating (history)
    pollFlip,      \* flips at every initLogoA invocation (history)
    constructed,   \* number of new ParticleLogoA(...) evaluated, saturating (history)
    width, height, \* this.width, this.height
    mouseX, mouseY, scrollProgress,  \* this.mouseX, this.mouseY, this.scrollProgress
    logoParticles, \* this.particles
    origAtConstruction, \* originalPosition of every particle as given at construction (history)
    realW, realH,  \* the container's real size (offsetWidth / getBoundingClientRect)
    pendingFrames, \* callbacks registered with requestAnimationFrame and not yet run
    pendingAtRender, \* callbacks pending when the latest animate() rendered (history)
    frames         \* number of animate() invocations, saturating (history)

offVars == <<pc, data, i, attempts, lastSample, particles, shuffleI, colorData,
             scaleData, posData, filesWritten, failure, logged, exitCode>>
pollVars == <<readyState, scriptRun, listening, containerExists, threeDefined,
              timers, polls, pollFlip, constructed>>
ctrlVars == <<width, height, mouseX, mouseY, scrollProgress, logoParticles,
              origAtConstruction, realW, realH, pendingFrames, pendingAtRender, frames>>
runtimeVars == <<pollVars, ctrlVars>>
vars == <<offVars, pollVars, ctrlVars>>

---------------------------------------------------------------------------
(* Exact rational arithmetic standing for JavaScript numbers. *)

RECURSIVE GCD(_, _)
GCD(a, b) == IF b = 0 THEN a ELSE GCD(b, a % b)

Abs(n) == IF n < 0 THEN -n ELSE n

Q(n, d) ==
    LET s == IF d < 0 THEN -1 ELSE 1
        g == GCD(Abs(n), Abs(d))
    IN [n |-> (s * n) \div g, d |-> (s * d) \div g]

LCM(a, b) == (a \div GCD(a, b)) * b

QAdd(a, b) ==
    LET m == LCM(a.d, b.d)
    IN Q(a.n * (m \div a.d) + b.n * (m \div b.d), m)
QNeg(a) == [n |-> -a.n, d |-> a.d]
QSub(a, b) == QAdd(a, QNeg(b))
QMul(a, b) ==
    LET g1 == GCD(Abs(a.n), b.d)
        g2 == GCD(Abs(b.n), a.d)
    IN Q((a.n \div g1) * (b.n \div g2), (a.d \div g2) * (b.d \div g1))
QDiv(a, b) == QMul(a, Q(b.d, b.n))
QLe(a, b) == a.n * b.d <= b.n * a.d
QLt(a, b) == a.n * b.d < b.n * a.d
QMax(a, b) == IF QLe(a, b) THEN b ELSE a
QInt(k) == [n |-> k, d |-> 1]
\* Math.floor
QFloor(a) == a.n \div a.d
\* a store into a Buffer (Uint8Array) element
ToUint8(v) == v % 256

---------------------------------------------------------------------------
(* Offline script: constants of generateParticleTextures. *)

\* width and height of the working canvas (800 in the source)
analysisSize == 2
\* target particle count (15000 in the source)
TARGET_PARTICLES == 2
\* sampling-attempt budget (150000 in the source)
samples == 4
\* texture dimension (128 in the source); texDim * texDim >= TARGET_PARTICLES
texDim == 2

infoWidth == analysisSize
infoHeight == analysisSize

Px(r, g, b, a) == <<r, g, b, a>>

\* The pixels the model's images are made of: the filter's boundary cases.
Palette ==
    << Px(0, 0, 0, 0),          Px(25, 25, 25, 255),    Px(25, 25, 26, 255),
       Px(26, 26, 26, 201),     Px(249, 249, 249, 255), Px(250, 250, 249, 255),
       Px(250, 250, 250, 255),  Px(128, 128, 128, 200), Px(128, 128, 128, 201),
       Px(255, 255, 255, 255) >>

\* Image k with stride s: pixel number p holds palette entry k + s*p (cyclic).
\* Stride 0 gives the uniform images.
ImageData(k, s) ==
    [idx \in 0..(infoWidth * infoHeight * 4 - 1) |->
        Palette[((k + s * (idx \div 4)) % Len(Palette)) + 1][(idx % 4) + 1]]

Images == {ImageData(k, s) : k \in 0..(Len(Palette) - 1), s \in 0..1}

\* Values Math.random() is taken to return in the z jitter: the draw that
\* gives the smallest z.
JitterDraws == {Q(0, 1)}

\* Math.floor(Math.random() * n)
FloorRandom(n) == 0..(n - 1)

NoSample == [x |-> -1, y |-> -1, r |-> 0, g |-> 0, b |-> 0, a |-> 0, pushed |-> FALSE]

---------------------------------------------------------------------------
(* Offline script: the sampling loop. *)

\* const brightness = (r + g + b) / 3;
Brightness(r, g, b) == QDiv(QInt(r + g + b), QInt(3))

\* if (brightness > 25 && brightness < 250 && a > 200)
PassesFilterLoose(r, g, b, a) ==
    /\ QLe(QInt(25), Brightness(r, g, b))
    /\ QLe(Brightness(r, g, b), QInt(250))
    /\ a >= 200
PassesFilter(r, g, b, a) ==
    /\ QLt(QInt(25), Brightness(r, g, b))
    /\ QLt(Brightness(r, g, b), QInt(250))
    /\ a > 200

\* posX = posX * 0.8 + 0.1
RemapNoPadding(v) == v
Remap(v) == QAdd(QMul(v, Q(8, 10)), Q(1, 10))

\* the record pushed for pixel (x, y) with channels r, g, b and jitter draw u
MakeParticle(x, y, r, g, b, u) ==
    LET brightness == Brightness(r, g, b)
        posX == QDiv(QInt(x), QInt(infoWidth))
        posY == QSub(QInt(1), QDiv(QInt(y), QInt(infoHeight)))
        posZ == QAdd(QAdd(Q(1, 2), QMul(QDiv(brightness, QInt(255)), Q(1, 10))),
                     QMul(QSub(u, Q(1, 2)), Q(5, 100)))
    IN [x |-> Remap(posX), y |-> Remap(posY), z |-> posZ,
        r |-> r, g |-> g, b |-> b,
        scale |-> QMax(Q(2, 10), QDiv(brightness, QInt(255)))]

\* if (particles.length >= TARGET_PARTICLES) break;
LoopBreaksLate(ps) == Len(ps) > TARGET_PARTICLES
LoopBreaks(ps) == Len(ps) >= TARGET_PARTICLES

\* try { sharp = require('sharp') } catch (e) { execSync('npm install sharp'); sharp = require('sharp') }
RequireSharp ==
    /\ pc = "require"
    /\ \E outcome \in {"present", "installed", "installFailed"} :
          IF outcome = "installFailed"
          THEN /\ failure' = "install"
               /\ pc' = "rejected"
          ELSE /\ failure' = failure
               /\ pc' = "load"
    /\ UNCHANGED runtimeVars
    /\ UNCHANGED <<data, i, attempts, lastSample, particles, shuffleI, colorData,
                   scaleData, posData, filesWritten, logged, exitCode>>

\* await sharp(logoPath).resize(...).ensureAlpha().raw().toBuffer(...)
LoadImageOk ==
    /\ pc = "load"
    /\ \E img \in Images : data' = img
    /\ i' = 0
    /\ pc' = "sample"
    /\ UNCHANGED runtimeVars
    /\ UNCHANGED <<attempts, lastSample, particles, shuffleI, colorData, scaleData,
                   posData, filesWritten, failure, logged, exitCode>>

LoadImageFails ==
    /\ pc = "load"
    /\ failure' = "load"
    /\ pc' = "rejected"
    /\ UNCHANGED runtimeVars
    /\ UNCHANGED <<data, i, attempts, lastSample, particles, shuffleI, colorData,
                   scaleData, posData, filesWritten, logged, exitCode>>

\* one body of: for (let i = 0; i < samples; i++) { ... }
SampleAttempt ==
    /\ pc = "sample"
    /\ i < samples
    /\ \E x \in FloorRandom(infoWidth), y \in FloorRandom(infoHeight), u \in JitterDraws :
          LET idx == (y * infoWidth + x) * 4
              r == data[idx]
              g == data[idx + 1]
              b == data[idx + 2]
              a == data[idx + 3]
              ok == PassesFilter(r, g, b, a)
              ps == IF ok THEN Append(particles, MakeParticle(x, y, r, g, b, u))
                    ELSE particles
          IN /\ particles' = ps
             /\ lastSample' = [x |-> x, y |-> y, r |-> r, g |-> g, b |-> b, a |-> a,
                               pushed |-> ok]
             /\ IF LoopBreaks(ps)
                THEN /\ pc' = "shuffle"
                     /\ i' = i
                     /\ shuffleI' = Len(ps) - 1
                ELSE /\ pc' = "sample"
                     /\ i' = i + 1
                     /\ shuffleI' = shuffleI
    /\ attempts' = attempts + 1
    /\ UNCHANGED runtimeVars
    /\ UNCHANGED <<data, colorData, scaleData, posData, filesWritten, failure,
                   logged, exitCode>>

\* the loop condition i < samples fails
SampleLoopEnds ==
    /\ pc = "sample"
    /\ ~(i < samples)
    /\ pc' = "shuffle"
    /\ shuffleI' = Len(particles) - 1
    /\ UNCHANGED runtimeVars
    /\ UNCHANGED <<data, i, attempts, lastSample, particles, colorData, scaleData,
                   posData, filesWritten, failure, logged, exitCode>>

Swap(ps, a, b) == [ps EXCEPT ![a] = ps[b], ![b] = ps[a]]

\* one body of: for (let i = particles.length - 1; i > 0; i--) { swap i, j }
ShuffleStep ==
    /\ pc = "shuffle"
    /\ shuffleI > 0
    /\ \E j \in FloorRandom(shuffleI + 1) :
          particles' = Swap(particles, shuffleI + 1, j + 1)
    /\ shuffleI' = shuffleI - 1
    /\ UNCHANGED runtimeVars
    /\ UNCHANGED <<pc, data, i, attempts, lastSample, colorData, scaleData, posData,
                   filesWritten, failure, logged, exitCode>>

ShuffleEnds ==
    /\ pc = "shuffle"
    /\ ~(shuffleI > 0)
    /\ pc' = "pack"
    /\ UNCHANGED runtimeVars
    /\ UNCHANGED <<data, i, attempts, lastSample, particles, shuffleI, colorData,
                   scaleData, posData, filesWritten, failure, logged, exitCode>>

---------------------------------------------------------------------------
(* Offline script: packing, the three writes, the end of the process. *)

\* Buffer.alloc(n) : n zero bytes
BufferAllocDirty(n) == [k \in 0..(n - 1) |-> 255]
BufferAlloc(n) == [k \in 0..(n - 1) |-> 0]

\* channel c (0, 1, 2) of the colour of particle p
ColorChannel(p, c) == IF c = 0 THEN p.r ELSE IF c = 1 THEN p.g ELSE p.b

\* channel c (0, 1, 2) of the packed position of particle p: Math.floor(p.x * 255), ...
PositionChannel(p, c) ==
    QFloor(QMul(IF c = 0 THEN p.x ELSE IF c = 1 THEN p.y ELSE p.z, QInt(255)))

\* colorData after the packing loop over i in [0, texDim * texDim)
PackColor(ps) ==
    LET alloc == BufferAlloc(texDim * texDim * 3)
    IN [k \in 0..(texDim * texDim * 3 - 1) |->
          IF (k \div 3) < Len(ps) THEN ToUint8(ColorChannel(ps[(k \div 3) + 1], k % 3))
          ELSE IF k % 3 = 0 THEN 0
          ELSE alloc[k]]

\* scaleData after the packing loop
PackScale(ps) ==
    LET alloc == BufferAlloc(texDim * texDim)
    IN [k \in 0..(texDim * texDim - 1) |->
          IF k < Len(ps) THEN ToUint8(QFloor(QMul(ps[k + 1].scale, QInt(255))))
          ELSE 0]

\* posData after the packing loop
PackPosition(ps) ==
    LET alloc == BufferAlloc(texDim * texDim * 3)
    IN [k \in 0..(texDim * texDim * 3 - 1) |->
          IF (k \div 3) < Len(ps) THEN ToUint8(PositionChannel(ps[(k \div 3) + 1], k % 3))
          ELSE IF k % 3 = 0 THEN 0
          ELSE alloc[k]]

Pack ==
    /\ pc = "pack"
    /\ colorData' = PackColor(particles)
    /\ scaleData' = PackScale(particles)
    /\ posData' = PackPosition(particles)
    /\ pc' = "write"
    /\ UNCHANGED runtimeVars
    /\ UNCHANGED <<data, i, attempts, lastSample, particles, shuffleI, filesWritten,
                   failure, logged, exitCode>>

\* the three files, in the order they are written
FileNames == <<"cd-33-logo-v4.png", "sc-33-logo-v4.png", "pos-33-logo-v4.png">>

\* await sharp(buffer, ...).png().toFile(...) succeeds
WriteFileOk ==
    /\ pc = "write"
    /\ filesWritten' = filesWritten \cup {FileNames[Cardinality(filesWritten) + 1]}
    /\ pc' = IF Cardinality(filesWritten') = Len(FileNames) THEN "resolved" ELSE "write"
    /\ UNCHANGED runtimeVars
    /\ UNCHANGED <<data, i, attempts, lastSample, particles, shuffleI, colorData,
                   scaleData, posData, failure, logged, exitCode>>

\* await sharp(buffer, ...).png().toFile(...) rejects
WriteFileFails ==
    /\ pc = "write"
    /\ failure' = "write"
    /\ pc' = "rejected"
    /\ UNCHANGED runtimeVars
    /\ UNCHANGED <<data, i, attempts, lastSample, particles, shuffleI, colorData,
                   scaleData, posData, filesWritten, logged, exitCode>>

\* generateParticleTextures().catch(console.error)
CatchLogs ==
    /\ pc = "rejected"
    /\ logged' = failure
    /\ pc' = "settled"
    /\ UNCHANGED runtimeVars
    /\ UNCHANGED <<data, i, attempts, lastSample, particles, shuffleI, colorData,
                   scaleData, posData, filesWritten, failure, exitCode>>

\* The promise chain has settled and nothing is pending: node exits with
\* process.exitCode, which nothing in the script sets.
ProcessExits ==
    /\ pc \in {"resolved", "settled"}
    /\ exitCode' = 0
    /\ pc' = "exited"
    /\ UNCHANGED runtimeVars
    /\ UNCHANGED <<data, i, attempts, lastSample, particles, shuffleI, colorData,
                   scaleData, posData, filesWritten, failure, logged>>

\* The state before the script's first statement; the page of the runtime
\* pipeline is not part of this process and stays as it is.
InitOffline ==
    /\ pc = "require"
    /\ data = <<>>
    /\ i = 0
    /\ attempts = 0
    /\ lastSample = NoSample
    /\ particles = <<>>
    /\ shuffleI = 0
    /\ colorData = <<>>
    /\ scaleData = <<>>
    /\ posData = <<>>
    /\ filesWritten = {}
    /\ failure = "none"
    /\ logged = "none"
    /\ exitCode = -1
    /\ readyState = "loading"
    /\ scriptRun = FALSE
    /\ listening = FALSE
    /\ containerExists = FALSE
    /\ threeDefined = FALSE
    /\ timers = <<>>
    /\ polls = 0
    /\ pollFlip = FALSE
    /\ constructed = 0
    /\ width = 0
    /\ height = 0
    /\ mouseX = QInt(0)
    /\ mouseY = QInt(0)
    /\ scrollProgress = QInt(0)
    /\ logoParticles = <<>>
    /\ origAtConstruction = <<>>
    /\ realW = 0
    /\ realH = 0
    /\ pendingFrames = 0
    /\ pendingAtRender = 0
    /\ frames = 0

NextOffline ==
    \/ RequireSharp
    \/ LoadImageOk
    \/ LoadImageFails
    \/ SampleAttempt
    \/ SampleLoopEnds
    \/ ShuffleStep
    \/ ShuffleEnds
    \/ Pack
    \/ WriteFileOk
    \/ WriteFileFails
    \/ CatchLogs
    \/ ProcessExits

SpecOffline == InitOffline /\ [][NextOffline]_vars

---------------------------------------------------------------------------
(* Properties of the offline script, checked under SpecOffline. *)

\* the sampling loop has been left
LoopLeft == pc \in {"shuffle", "pack", "write", "resolved"}

\* the particles are still in the order they were pushed in
Unshuffled == pc = "sample" \/ (pc = "shuffle" /\ shuffleI = Len(particles) - 1)

\* the three buffers have been packed
AfterPacking ==
    \/ pc \in {"write", "resolved"}
    \/ failure = "write"
    \/ (pc = "exited" /\ failure = "none")

\* C1: in every state the number of accepted particles is at most
\* TARGET_PARTICLES and at most the number of attempts made, which is at most
\* samples; while the loop runs fewer than TARGET_PARTICLES are accepted, so it
\* stops at the first attempt that reaches the target (that attempt pushed);
\* it is left either so or with the budget used up, and a short sequence goes
\* on to shuffling and packing without any failure.
C1_SampleCountBounded ==
    /\ Len(particles) <= TARGET_PARTICLES
    /\ Len(particles) <= attempts
    /\ attempts <= samples
    /\ (pc = "sample" => Len(particles) < TARGET_PARTICLES /\ attempts = i)
    /\ (LoopLeft =>
          \/ (Len(particles) = TARGET_PARTICLES /\ lastSample.pushed)
          \/ attempts = samples)
    /\ (pc \in {"shuffle", "pack"} => failure = "none")

\* C1 witness: the loop was left early, at the attempt that reached the target.
C1_Witness_EarlyStop ==
    /\ pc = "shuffle"
    /\ Len(particles) = TARGET_PARTICLES
    /\ attempts < samples
    /\ attempts > TARGET_PARTICLES

\* C2: the pixel read by the latest attempt is the image's pixel at the sampled
\* coordinate; if its brightness is <= 25 or >= 250 (r+g+b <= 75 or >= 750) or
\* its alpha is <= 200 it was not pushed; a pushed pixel's r, g, b are those of
\* the record pushed; and every accepted record has brightness strictly
\* between 25 and 250.
C2_RejectedNeverAccepted ==
    /\ \A k \in 1..Len(particles) :
          LET p == particles[k]
          IN 75 < p.r + p.g + p.b /\ p.r + p.g + p.b < 750
    /\ (attempts > 0 =>
          LET s == lastSample
              idx == (s.y * infoWidth + s.x) * 4
          IN /\ <<s.r, s.g, s.b, s.a>> =
                   <<data[idx], data[idx + 1], data[idx + 2], data[idx + 3]>>
             /\ (s.r + s.g + s.b <= 75 \/ s.r + s.g + s.b >= 750 \/ s.a <= 200
                   => ~s.pushed)
             /\ (s.pushed /\ Unshuffled =>
                   LET p == particles[Len(particles)]
                   IN <<p.r, p.g, p.b>> = <<s.r, s.g, s.b>>))

\* C2 witness: a pixel of brightness 26 and alpha 201 was accepted.
C2_Witness_BoundaryAccepted ==
    /\ lastSample.pushed
    /\ lastSample.a = 201
    /\ lastSample.r + lastSample.g + lastSample.b = 78

\* C3: every accepted particle has 0.1 <= x <= 0.9 and 0.1 <= y <= 0.9, and the
\* record pushed for pixel (x, y) has x = (x/width)*0.8+0.1 and
\* y = (1 - y/height)*0.8+0.1.
C3_PaddingInvariant ==
    /\ \A k \in 1..Len(particles) :
          LET p == particles[k]
          IN /\ p.x.d > 0 /\ p.y.d > 0
             /\ p.x.d <= 10 * p.x.n /\ 10 * p.x.n <= 9 * p.x.d
             /\ p.y.d <= 10 * p.y.n /\ 10 * p.y.n <= 9 * p.y.d
    /\ (lastSample.pushed /\ Unshuffled =>
          LET p == particles[Len(particles)]
              s == lastSample
          IN /\ p.x.n * (10 * infoWidth) = (8 * s.x + infoWidth) * p.x.d
             /\ p.y.n * (10 * infoHeight) =
                   (8 * (infoHeight - s.y) + infoHeight) * p.y.d)

\* C3 witness: the pixel at (0, 0) was accepted: x is exactly 0.1, y exactly 0.9.
C3_Witness_CornerPixel ==
    \E k \in 1..Len(particles) :
        /\ particles[k].x = [n |-> 1, d |-> 10]
        /\ particles[k].y = [n |-> 9, d |-> 10]

\* C4: after packing the buffers have texDim*texDim*3, texDim*texDim and
\* texDim*texDim*3 entries; every channel of a slot at or past
\* particles.length is zero in all three, and the position triple of a slot
\* below particles.length is not (0,0,0).
C4_PaddingIsZeroPosition ==
    AfterPacking =>
        /\ DOMAIN colorData = 0..(texDim * texDim * 3 - 1)
        /\ DOMAIN scaleData = 0..(texDim * texDim - 1)
        /\ DOMAIN posData = 0..(texDim * texDim * 3 - 1)
        /\ \A k \in 0..(texDim * texDim - 1) :
              LET pos == <<posData[3 * k], posData[3 * k + 1], posData[3 * k + 2]>>
                  col == <<colorData[3 * k], colorData[3 * k + 1], colorData[3 * k + 2]>>
              IN IF k >= Len(particles)
                 THEN pos = <<0, 0, 0>> /\ col = <<0, 0, 0>> /\ scaleData[k] = 0
                 ELSE pos # <<0, 0, 0>>

\* C4 witness: packed buffers holding both real particles and padding.
C4_Witness_PartlyFilled ==
    /\ AfterPacking
    /\ 0 < Len(particles)
    /\ Len(particles) < texDim * texDim

\* C7: when the process has exited after the image failed to load or a PNG
\* write failed, the error was logged and the exit status is not zero; and the
\* exit status is zero only when all three PNG files were written.
C7_FailureExitsNonZero ==
    pc = "exited" =>
        /\ (failure \in {"load", "write"} => logged = failure /\ exitCode # 0)
        /\ (exitCode = 0 => Cardinality(filesWritten) = Len(FileNames))

---------------------------------------------------------------------------
(* Runtime: numbers, Math.sin / Math.cos, and the random profiles. *)

\* setTimeout(initLogoA, 100)
PollDelay == 100
\* this.container.offsetWidth || 400
DefaultSize == 400
\* window.innerHeight of the model's pages
InnerHeight == 600

\* cap of the history counter polls
MaxPolls == 3
\* cap of the history counter frames
MaxFrames == 2
\* Date.now() * 0.001 is drawn from 0..MaxTime, in units of 100 * (pi/6) seconds
MaxTime == 2
\* number of generated logo points (980 in the source)
NumLogoPoints == 1
\* addGlowParticles(100)
GlowCount == 1

Min(a, b) == IF a <= b THEN a ELSE b
Max(a, b) == IF a >= b THEN a ELSE b

\* Particle coordinates, radii, speeds and opacities are fixed-point numbers:
\* integers counting millionths.  Every product the code forms is exact at
\* this scale for the draws below.

\* factor * v for a factor given in thousandths
Scaled(perMille, v) == (perMille * v) \div 1000

\* Math.sin on multiples of 30 degrees (pi/6), in thousandths
SinTable == <<0, 500, 866, 1000, 866, 500, 0, -500, -866, -1000, -866, -500>>
Sin(a) == SinTable[(a % 12) + 1]
Cos(a) == Sin(a + 3)

\* time * speed * factor + pulseOffset, in units of pi/6: time counts units of
\* 100 * (pi/6) seconds, speed is in millionths of rad/s, factor in tenths,
\* pulseOffset in units of pi/6.
Angle(time, speed, tenths, pulseOffset) ==
    (time * (speed \div 10000) * tenths) \div 10 + pulseOffset

\* a / b as JavaScript computes it: d = 0 stands for NaN (n = 0) and for
\* +Infinity / -Infinity (n = 1 / n = -1)
JSDiv(a, b) ==
    IF b = 0 THEN [n |-> IF a = 0 THEN 0 ELSE IF a > 0 THEN 1 ELSE -1, d |-> 0]
    ELSE Q(a, b)

V3(x, y, z) == [x |-> x, y |-> y, z |-> z]

\* Points of the logo, in millionths: getCirclePoints(1.45, ...) at angle 0,
\* and the first point of the left leg of the letter at scale 1.15; z is the
\* jitter (0 - 0.5) * 0.1.
LogoPoints ==
    << V3(1450000, 0, -50000),
       V3(-632500, -920000, -50000) >>

\* Math.random() draws of one core particle, in thousandths, one per field it
\* randomizes (offset: the position offsets; opacity; pulseOffset; pulseSpeed;
\* orbitRadius; orbitSpeed).
CoreDraws ==
    << [offset |-> 0, opacity |-> 0, pulseOffset |-> 0,
        pulseSpeed |-> 0, orbitRadius |-> 0, orbitSpeed |-> 0],
       [offset |-> 500, opacity |-> 500, pulseOffset |-> 250,
        pulseSpeed |-> 250, orbitRadius |-> 500, orbitSpeed |-> 250],
       [offset |-> 750, opacity |-> 990, pulseOffset |-> 750,
        pulseSpeed |-> 750, orbitRadius |-> 750, orbitSpeed |-> 750] >>

\* Math.random() draws of one halo particle, in thousandths (angle; radius and
\* the position offsets; opacity; pulseOffset; pulseSpeed; orbitRadius;
\* orbitSpeed).
GlowDraws ==
    << [angle |-> 0, radius |-> 0, opacity |-> 0, pulseOffset |-> 0,
        pulseSpeed |-> 0, orbitRadius |-> 0, orbitSpeed |-> 0],
       [angle |-> 250, radius |-> 500, opacity |-> 500, pulseOffset |-> 250,
        pulseSpeed |-> 400, orbitRadius |-> 500, orbitSpeed |-> 400],
       [angle |-> 750, radius |-> 750, opacity |-> 990, pulseOffset |-> 750,
        pulseSpeed |-> 800, orbitRadius |-> 750, orbitSpeed |-> 800] >>

\* Math.random() * Math.PI * 2, in units of pi/6
RandomAngle(draw) == (draw * 12) \div 1000

\* one core particle of createLogoParticles, for a point and its draws
CoreParticle(point, u) ==
    LET pos == V3(point.x + Scaled(u.offset - 500, 40000),
                  point.y + Scaled(u.offset - 500, 40000),
                  point.z)
    IN [position |-> pos,
        opacity |-> 500000 + Scaled(u.opacity, 500000),
        originalPosition |-> pos,
        pulseOffset |-> RandomAngle(u.pulseOffset),
        pulseSpeed |-> 300000 + Scaled(u.pulseSpeed, 800000),
        orbitRadius |-> 8000 + Scaled(u.orbitRadius, 20000),
        orbitSpeed |-> 150000 + Scaled(u.orbitSpeed, 400000),
        isGlow |-> FALSE]

\* one halo particle of addGlowParticles, for its draws
GlowParticle(u) ==
    LET angle == RandomAngle(u.angle)
        radius == 1200000 + Scaled(u.radius, 600000)
        pos == V3(Scaled(Cos(angle), radius) + Scaled(u.radius - 500, 400000),
                  Scaled(Sin(angle), radius) + Scaled(u.radius - 500, 400000),
                  Scaled(u.radius - 500, 400000))
    IN [position |-> pos,
        opacity |-> 100000 + Scaled(u.opacity, 200000),
        originalPosition |-> pos,
        pulseOffset |-> RandomAngle(u.pulseOffset),
        pulseSpeed |-> 200000 + Scaled(u.pulseSpeed, 500000),
        orbitRadius |-> 30000 + Scaled(u.orbitRadius, 60000),
        orbitSpeed |-> 100000 + Scaled(u.orbitSpeed, 250000),
        isGlow |-> TRUE]

\* element k of a cyclic walk through seq that starts after element `start`
Cyclic(seq, start, k) == seq[((start + k) % Len(seq)) + 1]

\* this.particles after createLogoParticles(): the core particles, then the
\* halo.  Particle k is given the k-th point and the k-th draws of cyclic
\* walks through LogoPoints, CoreDraws and GlowDraws.
CreateLogoParticles(point, core, glow) ==
    [k \in 1..(NumLogoPoints + GlowCount) |->
        IF k <= NumLogoPoints
        THEN CoreParticle(Cyclic(LogoPoints, point, k), Cyclic(CoreDraws, core, k))
        ELSE GlowParticle(Cyclic(GlowDraws, glow, k - NumLogoPoints))]

---------------------------------------------------------------------------
(* Runtime: ParticleLogoA. *)

\* this.container.offsetWidth || 400
OffsetOrDefault(offset) == IF offset = 0 THEN DefaultSize ELSE offset

\* the position the orbit offset is added to: originalPosition.x + orbitX
OrbitBaseDrifting(p) == p.position
OrbitBase(p) == p.originalPosition

\* the opacity written for a pulse value (in thousandths):
\* 0.1 + pulse * 0.1 + 0.05 for the halo, 0.5 + pulse * 0.25 + 0.15 for the core
OpacityLawWide(isGlow, pulse) ==
    IF isGlow THEN 100000 + Scaled(pulse, 100000) + 50000
    ELSE 500000 + Scaled(pulse, 500000) + 150000
OpacityLaw(isGlow, pulse) ==
    IF isGlow THEN 100000 + Scaled(pulse, 100000) + 50000
    ELSE 500000 + Scaled(pulse, 250000) + 150000

\* the body of the particle loop of animate() for one particle
AnimateParticle(p, time) ==
    LET orbitX == Scaled(Sin(Angle(time, p.orbitSpeed, 10, p.pulseOffset)), p.orbitRadius)
        orbitY == Scaled(Cos(Angle(time, p.orbitSpeed, 12, p.pulseOffset)), p.orbitRadius)
        orbitZ == Scaled(Sin(Angle(time, p.orbitSpeed, 8, p.pulseOffset)), p.orbitRadius)
                      \div 2
        pulse == Sin(Angle(time, p.pulseSpeed, 10, p.pulseOffset))
    IN [p EXCEPT !.position = V3(OrbitBase(p).x + orbitX,
                                 OrbitBase(p).y + orbitY,
                                 OrbitBase(p).z + orbitZ),
                 !.opacity = OpacityLaw(p.isGlow, pulse)]

\* for (const particle of this.particles) { ... }
AnimateParticles(ps, time) == [k \in DOMAIN ps |-> AnimateParticle(ps[k], time)]

\* requestAnimationFrame(() => this.animate()): the callbacks pending afterwards
ScheduleNone(pending) == pending
ScheduleNext(pending) == pending + 1

\* animate(), invoked with `pending` callbacks registered: it registers its
\* successor first, then updates the field at the time read and renders.
Animate(ps, pending) ==
    \E time \in 0..MaxTime :
        /\ pendingFrames' = ScheduleNext(pending)
        /\ logoParticles' = AnimateParticles(ps, time)
        /\ pendingAtRender' = ScheduleNext(pending)
        /\ frames' = Min(frames + 1, MaxFrames)

\* new ParticleLogoA('brain-logo-container')
Construct ==
    /\ constructed' = Min(constructed + 1, 2)
    /\ IF ~containerExists
       THEN UNCHANGED ctrlVars
       ELSE /\ width' = OffsetOrDefault(realW)
            /\ height' = OffsetOrDefault(realH)
            /\ mouseX' = QInt(0)
            /\ mouseY' = QInt(0)
            /\ scrollProgress' = QInt(0)
            /\ \E point \in 1..Len(LogoPoints), core \in 1..Len(CoreDraws),
                  glow \in 1..Len(GlowDraws) :
                  LET created == CreateLogoParticles(point, core, glow)
                  IN /\ origAtConstruction' =
                           [k \in DOMAIN created |-> created[k].originalPosition]
                     /\ Animate(created, pendingFrames)
            /\ UNCHANGED <<realW, realH>>

\* if (container && typeof THREE !== 'undefined')
ReadyContainerOnly(container, three) == container
ReadyToConstruct(container, three) == container /\ three

\* initLogoA(), with `pending` the timers pending when it is invoked
InitLogoA(pending) ==
    /\ polls' = Min(polls + 1, MaxPolls)
    /\ pollFlip' = ~pollFlip
    /\ IF ReadyToConstruct(containerExists, threeDefined)
       THEN /\ timers' = pending
            /\ Construct
       ELSE /\ timers' = Append(pending, PollDelay)
            /\ constructed' = constructed
            /\ UNCHANGED ctrlVars

\* the top-level code of brain-logo.js
ScriptRun ==
    /\ ~scriptRun
    /\ scriptRun' = TRUE
    /\ IF readyState = "loading"
       THEN /\ listening' = TRUE
            /\ UNCHANGED <<timers, polls, pollFlip, constructed, ctrlVars>>
       ELSE /\ listening' = listening
            /\ InitLogoA(timers)
    /\ UNCHANGED <<readyState, containerExists, threeDefined>>
    /\ UNCHANGED offVars

\* the document finishes parsing: DOMContentLoaded is dispatched
DOMContentLoaded ==
    /\ readyState = "loading"
    /\ readyState' = "interactive"
    /\ listening' = FALSE
    /\ IF listening
       THEN InitLogoA(timers)
       ELSE UNCHANGED <<timers, polls, pollFlip, constructed, ctrlVars>>
    /\ UNCHANGED <<scriptRun, containerExists, threeDefined>>
    /\ UNCHANGED offVars

\* the page gains or loses the container element
ContainerChanges ==
    /\ containerExists' = ~containerExists
    /\ UNCHANGED <<readyState, scriptRun, listening, threeDefined, timers, polls,
                   pollFlip, constructed, ctrlVars>>
    /\ UNCHANGED offVars

\* the three.js script finishes loading
ThreeLoads ==
    /\ ~threeDefined
    /\ threeDefined' = TRUE
    /\ UNCHANGED <<readyState, scriptRun, listening, containerExists, timers, polls,
                   pollFlip, constructed, ctrlVars>>
    /\ UNCHANGED offVars

\* time passes: every pending timer comes d ms closer to firing
Tick ==
    /\ \E k \in DOMAIN timers : timers[k] > 0
    /\ \E d \in {PollDelay \div 2, PollDelay} :
          timers' = [k \in DOMAIN timers |-> Max(0, timers[k] - d)]
    /\ UNCHANGED <<readyState, scriptRun, listening, containerExists, threeDefined,
                   polls, pollFlip, constructed, ctrlVars>>
    /\ UNCHANGED offVars

\* a due timer fires: setTimeout's callback initLogoA runs
TimerFires ==
    /\ \E k \in DOMAIN timers :
          /\ timers[k] = 0
          /\ InitLogoA([j \in 1..(Len(timers) - 1) |->
                            IF j < k THEN timers[j] ELSE timers[j + 1]])
    /\ UNCHANGED <<readyState, scriptRun, listening, containerExists, threeDefined>>
    /\ UNCHANGED offVars

---------------------------------------------------------------------------
(* Runtime: the frame loop and the event listeners. *)

\* sizes (offsetWidth, offsetHeight) the container is given by the page
ContainerSizes == {<<0, 0>>, <<200, 100>>, <<400, 400>>}

\* document.documentElement.scrollHeight of the model's pages
ScrollHeights == {InnerHeight, 2 * InnerHeight}

\* addEventListeners() has run
ListenersAdded == constructed > 0

\* the animation scheduler runs the pending callback () => this.animate()
Frame ==
    /\ pendingFrames > 0
    /\ Animate(logoParticles, pendingFrames - 1)
    /\ UNCHANGED <<width, height, mouseX, mouseY, scrollProgress, origAtConstruction,
                   realW, realH>>
    /\ UNCHANGED pollVars
    /\ UNCHANGED offVars

\* 'mousemove' on the container, the pointer at (ox, oy) from the top left
\* corner of its bounding rectangle: at that corner or at the opposite one
MouseMove ==
    /\ ListenersAdded
    /\ realW > 0 /\ realH > 0
    /\ \E corner \in {0, 1} :
          LET ox == corner * realW
              oy == corner * realH
          IN
          /\ mouseX' = QSub(QMul(JSDiv(ox, width), QInt(2)), QInt(1))
          /\ mouseY' = QAdd(QMul(QNeg(JSDiv(oy, height)), QInt(2)), QInt(1))
    /\ UNCHANGED <<width, height, scrollProgress, logoParticles, origAtConstruction,
                   realW, realH, pendingFrames, pendingAtRender, frames>>
    /\ UNCHANGED pollVars
    /\ UNCHANGED offVars

\* 'mouseleave' on the container
MouseLeave ==
    /\ ListenersAdded
    /\ mouseX' = QInt(0)
    /\ mouseY' = QInt(0)
    /\ UNCHANGED <<width, height, scrollProgress, logoParticles, origAtConstruction,
                   realW, realH, pendingFrames, pendingAtRender, frames>>
    /\ UNCHANGED pollVars
    /\ UNCHANGED offVars

\* 'scroll' on the window, for a page of height scrollHeight scrolled to scrollY
Scroll ==
    /\ ListenersAdded
    /\ \E scrollHeight \in ScrollHeights :
          \E scrollY \in {0, scrollHeight - InnerHeight} :
              LET scrollMax == scrollHeight - InnerHeight
              IN scrollProgress' = JSDiv(scrollY, scrollMax)
    /\ UNCHANGED <<width, height, mouseX, mouseY, logoParticles, origAtConstruction,
                   realW, realH, pendingFrames, pendingAtRender, frames>>
    /\ UNCHANGED pollVars
    /\ UNCHANGED offVars

\* 'resize' on the window
Resize ==
    /\ ListenersAdded
    /\ width' = OffsetOrDefault(realW)
    /\ height' = OffsetOrDefault(realH)
    /\ UNCHANGED <<mouseX, mouseY, scrollProgress, logoParticles, origAtConstruction,
                   realW, realH, pendingFrames, pendingAtRender, frames>>
    /\ UNCHANGED pollVars
    /\ UNCHANGED offVars

\* the page lays the container out at another size; no 'resize' is dispatched
\* on the window for it
LayoutChanges ==
    /\ \E size \in ContainerSizes :
          /\ <<realW, realH>> # size
          /\ realW' = size[1]
          /\ realH' = size[2]
    /\ UNCHANGED <<width, height, mouseX, mouseY, scrollProgress, logoParticles,
                   origAtConstruction, pendingFrames, pendingAtRender, frames>>
    /\ UNCHANGED pollVars
    /\ UNCHANGED offVars

\* The page while it loads: the script has not run, neither the container nor
\* THREE is there yet.  The offline script is another process and stays as it is.
InitPoll ==
    /\ readyState = "loading"
    /\ scriptRun = FALSE
    /\ listening = FALSE
    /\ containerExists = FALSE
    /\ threeDefined = FALSE
    /\ timers = <<>>
    /\ polls = 0
    /\ pollFlip = FALSE
    /\ constructed = 0
    /\ width = 0
    /\ height = 0
    /\ mouseX = QInt(0)
    /\ mouseY = QInt(0)
    /\ scrollProgress = QInt(0)
    /\ logoParticles = <<>>
    /\ origAtConstruction = <<>>
    /\ \E size \in ContainerSizes : realW = size[1] /\ realH = size[2]
    /\ pendingFrames = 0
    /\ pendingAtRender = 0
    /\ frames = 0
    /\ pc = "require"
    /\ data = <<>>
    /\ i = 0
    /\ attempts = 0
    /\ lastSample = NoSample
    /\ particles = <<>>
    /\ shuffleI = 0
    /\ colorData = <<>>
    /\ scaleData = <<>>
    /\ posData = <<>>
    /\ filesWritten = {}
    /\ failure = "none"
    /\ logged = "none"
    /\ exitCode = -1

NextPoll ==
    \/ ScriptRun
    \/ DOMContentLoaded
    \/ ContainerChanges
    \/ ThreeLoads
    \/ Tick
    \/ TimerFires

\* page load up to the construction of the logo
SpecPoll == InitPoll /\ [][NextPoll]_vars

\* The browser runs the script, finishes parsing, lets time pass and fires due
\* timers.
SpecPollFair ==
    /\ InitPoll
    /\ [][NextPoll]_vars
    /\ WF_vars(ScriptRun)
    /\ WF_vars(DOMContentLoaded)
    /\ WF_vars(Tick)
    /\ WF_vars(TimerFires)

\* A page already loaded, with the container and THREE there, on which the
\* script is about to run.
InitRuntime ==
    /\ readyState = "complete"
    /\ scriptRun = FALSE
    /\ listening = FALSE
    /\ containerExists = TRUE
    /\ threeDefined = TRUE
    /\ timers = <<>>
    /\ polls = 0
    /\ pollFlip = FALSE
    /\ constructed = 0
    /\ width = 0
    /\ height = 0
    /\ mouseX = QInt(0)
    /\ mouseY = QInt(0)
    /\ scrollProgress = QInt(0)
    /\ logoParticles = <<>>
    /\ origAtConstruction = <<>>
    /\ \E size \in ContainerSizes : realW = size[1] /\ realH = size[2]
    /\ pendingFrames = 0
    /\ pendingAtRender = 0
    /\ frames = 0
    /\ pc = "require"
    /\ data = <<>>
    /\ i = 0
    /\ attempts = 0
    /\ lastSample = NoSample
    /\ particles = <<>>
    /\ shuffleI = 0
    /\ colorData = <<>>
    /\ scaleData = <<>>
    /\ posData = <<>>
    /\ filesWritten = {}
    /\ failure = "none"
    /\ logged = "none"
    /\ exitCode = -1

NextRuntime ==
    \/ ScriptRun
    \/ Frame
    \/ MouseMove
    \/ MouseLeave
    \/ Scroll
    \/ Resize
    \/ LayoutChanges

\* the frame loop and the listeners of a constructed logo
SpecRuntime == InitRuntime /\ [][NextRuntime]_vars

---------------------------------------------------------------------------
(* Properties of the runtime. *)

\* a number (neither NaN nor an infinity) between lo and hi
QBetween(lo, a, hi) == a.d > 0 /\ QLe(lo, a) /\ QLe(a, hi)

\* C5: after any frames and events, every particle's originalPosition is the
\* one it was constructed with, and its displayed position differs from it by
\* at most orbitRadius in x, at most orbitRadius in y and at most
\* 0.5 * orbitRadius in z.
C5_NoDrift ==
    /\ Len(origAtConstruction) = Len(logoParticles)
    /\ \A k \in DOMAIN logoParticles :
          LET p == logoParticles[k]
              o == p.originalPosition
          IN /\ o = origAtConstruction[k]
             /\ Abs(p.position.x - o.x) <= p.orbitRadius
             /\ Abs(p.position.y - o.y) <= p.orbitRadius
             /\ 2 * Abs(p.position.z - o.z) <= p.orbitRadius

\* C5 witness: several frames have run, interleaved with pointer, scroll and
\* resize events, and a particle is displayed a full orbitRadius away from
\* its originalPosition.
C5_Witness_FramesAndEvents ==
    /\ frames = MaxFrames
    /\ mouseX # QInt(0)
    /\ scrollProgress # QInt(0)
    /\ width # OffsetOrDefault(realW)
    /\ \E k \in DOMAIN logoParticles :
          LET p == logoParticles[k]
          IN p.position.x - p.originalPosition.x = p.orbitRadius

PollStep == pollFlip' # pollFlip

\* C8 (safety): the logo is constructed at most once and at most one poll is
\* pending, none once it is constructed; a poll with the container and THREE
\* both there constructs the logo (for the first time) and schedules nothing;
\* a poll with either missing constructs nothing and schedules exactly one
\* poll PollDelay ms later, whatever the number of polls before it; nothing
\* but such a poll constructs the logo.
C8_PollStep ==
    /\ (PollStep /\ containerExists /\ threeDefined =>
          constructed = 0 /\ constructed' = 1 /\ timers' = <<>>)
    /\ (PollStep /\ ~(containerExists /\ threeDefined) =>
          constructed' = constructed /\ timers' = <<PollDelay>>)
    /\ (constructed' # constructed => PollStep /\ containerExists /\ threeDefined)

C8_PollState ==
    /\ constructed <= 1
    /\ Len(timers) <= 1
    /\ (constructed = 1 => timers = <<>>)

\* C8: the safety part above in every state and step, and if the container
\* and THREE eventually are and stay available, the logo is eventually
\* constructed.
C8_ConstructedOnceWhenReady ==
    /\ []C8_PollState
    /\ [][C8_PollStep]_vars
    /\ (<>[](containerExists /\ threeDefined) => <>(constructed = 1))

\* C8 witness: the logo was constructed after polls that found something
\* missing.
C8_Witness_ConstructedAfterRetries ==
    /\ constructed = 1
    /\ polls = MaxPolls
    /\ logoParticles # <<>>

\* C9: once the controller is constructed, mouseX and mouseY are in [-1, 1]
\* and scrollProgress is in [0, 1].
C9_InputsNormalized ==
    ListenersAdded =>
        /\ QBetween(QInt(-1), mouseX, QInt(1))
        /\ QBetween(QInt(-1), mouseY, QInt(1))
        /\ QBetween(QInt(0), scrollProgress, QInt(1))

\* C10 as claimed: every animate() has finished its field update and render
\* before its successor is registered with the scheduler, so no callback is
\* pending when it renders.
C10_RendersBeforeScheduling ==
    /\ (frames > 0 => pendingAtRender = 0)
    /\ pendingFrames <= 1

\* C10 amended: once the loop is started exactly one frame callback is
\* pending in every state (each animate() registers exactly one successor, so
\* the loop never stops and never forks), and that successor is already
\* registered when animate() updates and renders.
C10_OneSuccessorAlwaysPending ==
    /\ pendingFrames <= 1
    /\ (constructed > 0 => pendingFrames = 1 /\ pendingAtRender = 1 /\ frames > 0)
    /\ (constructed = 0 => pendingFrames = 0 /\ frames = 0)

\* C10 witness: frames have run after the one the constructor started.
C10_Witness_LoopRunning ==
    /\ frames = MaxFrames
    /\ pendingFrames = 1

====
